---- MODULE Spec2Model ----
(***************************************************************************)
(* Model of src/src/BitcoinCalculator.js: the React component             *)
(* BitcoinExclusivityCalculator, its four state cells, its change and     *)
(* click handlers, its render conditions and its pure helpers.            *)
(*                                                                         *)
(* Numbers.  A JavaScript Number is modelled exactly, as the rational     *)
(* m * 10^e / d (record fields m, e, d, sign flag neg), kept in a         *)
(* canonical form so that equal values are equal records.  The values    *)
(* the program computes are decimals with few digits, powers of ten and   *)
(* multiples of 1/21; on them the comparisons, Math.round, toFixed and    *)
(* toLocaleString of IEEE doubles give the results of exact arithmetic.   *)
(* (A value lying exactly on a decimal half of the digit toFixed rounds   *)
(* at may fall either way in doubles; the amounts below hold none.)       *)
(*                                                                         *)
(* Strings.  A JavaScript string is a sequence of pieces: every character *)
(* a conversion reads or writes is a one-character piece, the fixed text  *)
(* of a template literal is one longer piece.  "" is << >>.               *)
(***************************************************************************)
EXTENDS Integers, Sequences, FiniteSets, TLC

----------------------------------------------------------------------------
(* Exact numbers *)

RECURSIVE Pow10(_)
Pow10(n) == IF n = 0 THEN 1 ELSE 10 * Pow10(n - 1)

RECURSIVE Gcd(_, _)
Gcd(a, b) == IF b = 0 THEN a ELSE Gcd(b, a % b)

\* canonical form of m * 10^e / d: d has no factor 2 or 5, m no factor 10,
\* m and d are coprime; zero is 0 * 10^0 / 1
RECURSIVE Canon(_, _, _)
Canon(m, e, d) ==
    IF m = 0 THEN [m |-> 0, e |-> 0, d |-> 1]
    ELSE IF Gcd(m, d) > 1 THEN Canon(m \div Gcd(m, d), e, d \div Gcd(m, d))
    ELSE IF d % 2 = 0 THEN Canon(m * 5, e - 1, d \div 2)
    ELSE IF d % 5 = 0 THEN Canon(m * 2, e - 1, d \div 5)
    ELSE IF m % 10 = 0 THEN Canon(m \div 10, e + 1, d)
    ELSE [m |-> m, e |-> e, d |-> d]

Num(neg, m, e, d) ==
    [k |-> "num", neg |-> neg, m |-> Canon(m, e, d).m,
     e |-> Canon(m, e, d).e, d |-> Canon(m, e, d).d]

\* the decimal m * 10^e
Dec(m, e) == Num(FALSE, m, e, 1)

NaN == [k |-> "nan", neg |-> FALSE, m |-> 0, e |-> 0, d |-> 1]

Null == [k |-> "null", neg |-> FALSE, m |-> 0, e |-> 0, d |-> 1]

Zero == Dec(0, 0)

IsNum(x) == x.k = "num"

IsNegative(x) == x.neg /\ x.m > 0

Sign(n) == IF n > 0 THEN 1 ELSE IF n < 0 THEN -1 ELSE 0

\* sign of a * 10^k - b for a, b, k >= 0, without leaving the integers TLC has
RECURSIVE CmpShift(_, _, _)
CmpShift(a, k, b) ==
    IF k = 0 THEN Sign(a - b)
    ELSE IF a > b \div 10 THEN 1
    ELSE CmpShift(a * 10, k - 1, b)

CmpMag(x, y) ==
    IF x.e >= y.e THEN CmpShift(x.m * y.d, x.e - y.e, y.m * x.d)
    ELSE 0 - CmpShift(y.m * x.d, y.e - x.e, x.m * y.d)

Cmp(x, y) ==
    IF IsNegative(x) /\ IsNegative(y) THEN 0 - CmpMag(x, y)
    ELSE IF IsNegative(x) THEN -1
    ELSE IF IsNegative(y) THEN 1
    ELSE CmpMag(x, y)

\* the relational operators of JavaScript: false when an operand is NaN
Lt(x, y) == IsNum(x) /\ IsNum(y) /\ Cmp(x, y) < 0
Le(x, y) == IsNum(x) /\ IsNum(y) /\ Cmp(x, y) <= 0
Gt(x, y) == IsNum(x) /\ IsNum(y) /\ Cmp(x, y) > 0
Ge(x, y) == IsNum(x) /\ IsNum(y) /\ Cmp(x, y) >= 0

Mul(x, y) == Num(x.neg # y.neg, x.m * y.m, x.e + y.e, x.d * y.d)

Div(x, y) == Num(x.neg # y.neg, x.m * y.d, x.e - y.e, x.d * y.m)

IsInteger(x) == IsNum(x) /\ x.d = 1 /\ x.e >= 0

\* quotient and remainder of (q * d + r) * 10^t by d, one digit at a time
RECURSIVE LongDiv(_, _, _, _)
LongDiv(q, r, t, d) ==
    IF t = 0 THEN [q |-> q, r |-> r]
    ELSE LongDiv(q * 10 + (r * 10) \div d, (r * 10) % d, t - 1, d)

\* the integer nearest to x * 10^p for x >= 0, halves going up; every
\* intermediate value stays below the result times ten
ScaledRound(x, p) ==
    LET t == x.e + p
        up == LongDiv(x.m \div x.d, x.m % x.d, t, x.d)
        q1 == x.m \div Pow10(0 - t)
        r1 == x.m % Pow10(0 - t)
        half == (x.d - 1) \div 2
    IN  IF t >= 0 THEN up.q + (IF 2 * up.r >= x.d THEN 1 ELSE 0)
        ELSE IF 0 - t > 9 THEN 0
        ELSE q1 \div x.d
             + (IF \/ q1 % x.d > half
                   \/ q1 % x.d = half /\ 2 * r1 >= Pow10(0 - t)
                THEN 1 ELSE 0)

\* Math.round on a non-negative number
MathRound(x) == IF IsInteger(x) THEN x ELSE Dec(ScaledRound(x, 0), 0)

----------------------------------------------------------------------------
(* Strings and the conversions between strings and numbers *)

DigitChars == <<"0", "1", "2", "3", "4", "5", "6", "7", "8", "9">>

IsDigit(c) == \E i \in 1..10 : DigitChars[i] = c

DigitVal(c) == (CHOOSE i \in 1..10 : DigitChars[i] = c) - 1

RECURSIVE Zeros(_)
Zeros(n) == IF n <= 0 THEN << >> ELSE <<"0">> \o Zeros(n - 1)

\* decimal digits of a natural number, no leading zero
RECURSIVE Digits(_)
Digits(n) ==
    IF n < 10 THEN <<DigitChars[n + 1]>>
    ELSE Digits(n \div 10) \o <<DigitChars[(n % 10) + 1]>>

\* decimal digits of n, padded on the left with zeros to at least w digits
PadDigits(n, w) == Zeros(w - Len(Digits(n))) \o Digits(n)

\* digits of a non-negative integer number
IntegerDigits(x) == Digits(x.m) \o Zeros(x.e)

\* thousands grouping of a digit string (en-US)
RECURSIVE Group(_)
Group(ds) ==
    IF Len(ds) <= 3 THEN ds
    ELSE Group(SubSeq(ds, 1, Len(ds) - 3)) \o <<",">>
         \o SubSeq(ds, Len(ds) - 2, Len(ds))

RECURSIVE StripTrailingZeros(_)
StripTrailingZeros(ds) ==
    IF ds # << >> /\ ds[Len(ds)] = "0"
    THEN StripTrailingZeros(SubSeq(ds, 1, Len(ds) - 1))
    ELSE ds

\* Number.prototype.toFixed(f) on a non-negative number below 1e21
toFixed(x, f) ==
    IF f = 0 THEN Digits(ScaledRound(x, 0))
    ELSE Digits(ScaledRound(x, f) \div Pow10(f)) \o <<".">>
         \o PadDigits(ScaledRound(x, f) % Pow10(f), f)

\* Number.prototype.toLocaleString() with no arguments, in the en-US locale:
\* grouped integer part, at most three fraction digits, none of them padding
toLocaleString(x) ==
    IF IsInteger(x) THEN Group(IntegerDigits(x))
    ELSE IF ScaledRound(x, 3) % 1000 = 0
         THEN Group(Digits(ScaledRound(x, 3) \div 1000))
    ELSE Group(Digits(ScaledRound(x, 3) \div 1000)) \o <<".">>
         \o StripTrailingZeros(PadDigits(ScaledRound(x, 3) % 1000, 3))

\* first index >= i of s that holds no digit (Len(s) + 1 when there is none)
RECURSIVE DigitRunEnd(_, _)
DigitRunEnd(s, i) ==
    IF i <= Len(s) /\ IsDigit(s[i]) THEN DigitRunEnd(s, i + 1) ELSE i

\* first index >= i of s that holds no white space
RECURSIVE SkipSpace(_, _)
SkipSpace(s, i) ==
    IF i <= Len(s) /\ s[i] = " " THEN SkipSpace(s, i + 1) ELSE i

\* the digits s[i..j-1] appended to the number m * 10^z (z: zeros not yet
\* shifted in, so that trailing zeros never enlarge m)
RECURSIVE AccDigits(_, _, _, _, _)
AccDigits(s, i, j, m, z) ==
    IF i >= j THEN [m |-> m, z |-> z]
    ELSE IF s[i] = "0" THEN AccDigits(s, i + 1, j, m, z + 1)
    ELSE AccDigits(s, i + 1, j, m * Pow10(z + 1) + DigitVal(s[i]), 0)

IsSignAt(s, i) == i <= Len(s) /\ s[i] \in {"+", "-"}

\* The longest prefix of s (after leading white space) that is a decimal
\* literal, [+-] digits [. digits] [e [+-] digits] with a digit before or
\* after the point: its value and the index of the first character after it.
\* No literal: NaN.  (The literal Infinity is left out: the input element
\* delivers digits, sign, point and exponent only.)
ScanDecimal(s) ==
    LET p0 == SkipSpace(s, 1)
        p == IF IsSignAt(s, p0) THEN p0 + 1 ELSE p0
        neg == IsSignAt(s, p0) /\ s[p0] = "-"
        intEnd == DigitRunEnd(s, p)
        hasDot == intEnd <= Len(s) /\ s[intEnd] = "."
        fracEnd == IF hasDot THEN DigitRunEnd(s, intEnd + 1) ELSE intEnd
        nInt == intEnd - p
        nFrac == IF hasDot THEN fracEnd - (intEnd + 1) ELSE 0
        hasE == fracEnd <= Len(s) /\ s[fracEnd] \in {"e", "E"}
        q == IF IsSignAt(s, fracEnd + 1) THEN fracEnd + 2 ELSE fracEnd + 1
        expEnd == DigitRunEnd(s, q)
        hasExp == hasE /\ expEnd > q
        expNeg == IsSignAt(s, fracEnd + 1) /\ s[fracEnd + 1] = "-"
        expAbs == AccDigits(s, q, expEnd, 0, 0)
        exp == IF ~hasExp THEN 0
               ELSE IF expNeg THEN 0 - expAbs.m * Pow10(expAbs.z)
               ELSE expAbs.m * Pow10(expAbs.z)
        acc == AccDigits(s, intEnd + 1, fracEnd,
                         AccDigits(s, p, intEnd, 0, 0).m,
                         AccDigits(s, p, intEnd, 0, 0).z)
    IN  IF nInt + nFrac = 0 THEN [val |-> NaN, next |-> p0]
        ELSE [val |-> Num(neg, acc.m, acc.z - nFrac + exp, 1),
              next |-> IF hasExp THEN expEnd ELSE fracEnd]

\* the global parseFloat
parseFloat(s) == ScanDecimal(s).val

\* ToNumber on a string, as the operator > applies it to a string operand:
\* the empty string is 0, a string that is one decimal literal is its value,
\* anything else is NaN
ToNumber(s) ==
    IF SkipSpace(s, 1) > Len(s) THEN Zero
    ELSE IF SkipSpace(s, ScanDecimal(s).next) > Len(s) THEN ScanDecimal(s).val
    ELSE NaN

----------------------------------------------------------------------------
(* The component's state, and the bookkeeping the properties read *)

VARIABLES
    balance,      \* useState(""): the input text
    result,       \* useState(null): the stored rarity result, Null or a number
    error,        \* useState(""): the error message
    showGlobal,   \* useState(false): the population mode
    lastValue,    \* e.target.value of the latest handleChange run ("" before any)
    estArg,       \* the amount that run passed to calculateExclusivity (Null: no call)
    prevError,    \* the error message on screen when that run started
    call          \* an application of one pure function: arguments and results

vars == <<balance, result, error, showGlobal, lastValue, estArg, prevError, call>>

----------------------------------------------------------------------------
(* Constants of the component *)

MAX_BITCOIN_SUPPLY == Dec(21000000, 0)

LARGEST_KNOWN_HOLDING == Dec(1100000, 0)

TOTAL_ADDRESSES == Dec(100000000, 0)

GLOBAL_POPULATION == Dec(8, 9)

\* Object.entries(MARKET_SCENARIOS): the entries in insertion order
MARKET_SCENARIOS ==
    << [key |-> "CURRENT", cap |-> Dec(1, 12),
        name |-> "Current Bitcoin Market Cap"],
       [key |-> "GOLD", cap |-> Dec(135, 11), name |-> "Gold Market Cap"],
       [key |-> "CURRENCIES", cap |-> Dec(8, 13), name |-> "All Currencies"],
       [key |-> "GLOBAL_WEALTH", cap |-> Dec(5, 14), name |-> "Global Wealth"] >>

----------------------------------------------------------------------------
(* The pure functions *)

\* formatUSD with > in place of >= at the tier edges
formatUSDStrictEdges(amount) ==
    LET trillion == Dec(1, 12)
        billion == Dec(1, 9)
        million == Dec(1, 6)
    IN  IF Gt(amount, trillion)
        THEN <<"$">> \o toFixed(Div(amount, trillion), 2) \o <<"T">>
        ELSE IF Gt(amount, billion)
        THEN <<"$">> \o toFixed(Div(amount, billion), 2) \o <<"B">>
        ELSE IF Gt(amount, million)
        THEN <<"$">> \o toFixed(Div(amount, million), 2) \o <<"M">>
        ELSE <<"$">> \o toLocaleString(amount)

formatUSD(amount) ==
    LET trillion == Dec(1, 12)
        billion == Dec(1, 9)
        million == Dec(1, 6)
    IN  IF Ge(amount, trillion)
        THEN <<"$">> \o toFixed(Div(amount, trillion), 2) \o <<"T">>
        ELSE IF Ge(amount, billion)
        THEN <<"$">> \o toFixed(Div(amount, billion), 2) \o <<"B">>
        ELSE IF Ge(amount, million)
        THEN <<"$">> \o toFixed(Div(amount, million), 2) \o <<"M">>
        ELSE <<"$">> \o toLocaleString(amount)

\* calculateValueInScenario dividing the cap by the wrong constant
calculateValuePerAddress(btc, marketCap) ==
    LET pricePerBTC == Div(marketCap, TOTAL_ADDRESSES)
    IN  Mul(btc, pricePerBTC)

calculateValueInScenario(btc, marketCap) ==
    LET pricePerBTC == Div(marketCap, MAX_BITCOIN_SUPPLY)
    IN  Mul(btc, pricePerBTC)

\* calculateExclusivity with <= in place of < at the upper band edges
calculateExclusivityClosedBands(btc, isGlobal) ==
    LET base == IF isGlobal THEN GLOBAL_POPULATION ELSE TOTAL_ADDRESSES
    IN  IF Gt(btc, MAX_BITCOIN_SUPPLY) THEN Null
        ELSE IF Le(btc, Zero) THEN MathRound(base)
        ELSE IF Le(btc, Dec(1, -1)) THEN MathRound(Mul(base, Dec(8, -2)))
        ELSE IF Le(btc, Dec(1, 0)) THEN MathRound(Mul(base, Dec(15, -3)))
        ELSE IF Le(btc, Dec(10, 0)) THEN MathRound(Mul(base, Dec(25, -4)))
        ELSE IF Le(btc, Dec(100, 0)) THEN MathRound(Mul(base, Dec(3, -6)))
        ELSE IF Le(btc, Dec(1000, 0))
        THEN MathRound(IF isGlobal THEN Mul(base, Dec(5, -7)) ELSE Dec(1678, 0))
        ELSE IF Le(btc, Dec(10000, 0))
        THEN MathRound(IF isGlobal THEN Mul(base, Dec(1, -7)) ELSE Dec(85, 0))
        ELSE IF Le(btc, Dec(100000, 0))
        THEN MathRound(IF isGlobal THEN Mul(base, Dec(1, -8)) ELSE Dec(5, 0))
        ELSE IF Le(btc, LARGEST_KNOWN_HOLDING)
        THEN MathRound(IF isGlobal THEN Mul(base, Dec(1, -10)) ELSE Dec(1, 0))
        ELSE Zero

calculateExclusivity(btc, isGlobal) ==
    LET base == IF isGlobal THEN GLOBAL_POPULATION ELSE TOTAL_ADDRESSES
    IN  IF Gt(btc, MAX_BITCOIN_SUPPLY) THEN Null
        ELSE IF Le(btc, Zero) THEN MathRound(base)
        ELSE IF Lt(btc, Dec(1, -1)) THEN MathRound(Mul(base, Dec(8, -2)))
        ELSE IF Lt(btc, Dec(1, 0)) THEN MathRound(Mul(base, Dec(15, -3)))
        ELSE IF Lt(btc, Dec(10, 0)) THEN MathRound(Mul(base, Dec(25, -4)))
        ELSE IF Lt(btc, Dec(100, 0)) THEN MathRound(Mul(base, Dec(3, -6)))
        ELSE IF Lt(btc, Dec(1000, 0))
        THEN MathRound(IF isGlobal THEN Mul(base, Dec(5, -7)) ELSE Dec(1678, 0))
        ELSE IF Lt(btc, Dec(10000, 0))
        THEN MathRound(IF isGlobal THEN Mul(base, Dec(1, -7)) ELSE Dec(85, 0))
        ELSE IF Lt(btc, Dec(100000, 0))
        THEN MathRound(IF isGlobal THEN Mul(base, Dec(1, -8)) ELSE Dec(5, 0))
        ELSE IF Le(btc, LARGEST_KNOWN_HOLDING)
        THEN MathRound(IF isGlobal THEN Mul(base, Dec(1, -10)) ELSE Dec(1, 0))
        ELSE Zero

----------------------------------------------------------------------------
(* The change handler *)

ExceedsSupplyMessage ==
    <<"Invalid amount: exceeds maximum Bitcoin supply of ">>
    \o toLocaleString(MAX_BITCOIN_SUPPLY) \o <<" BTC">>

ExceedsLargestKnownMessage ==
    <<"No known addresses hold more than ">>
    \o toLocaleString(LARGEST_KNOWN_HOLDING) \o <<" BTC">>

\* handleChange with setResult(null) in the largest-known branch
handleChangeNullAboveLargest(value, isGlobal) ==
    LET btc == parseFloat(value)
    IN  IF btc.k # "nan" /\ Ge(btc, Zero)
        THEN IF Gt(btc, MAX_BITCOIN_SUPPLY)
             THEN [balance |-> value, error |-> ExceedsSupplyMessage,
                   result |-> Null, estArg |-> Null]
             ELSE IF Gt(btc, LARGEST_KNOWN_HOLDING)
             THEN [balance |-> value, error |-> ExceedsLargestKnownMessage,
                   result |-> Null, estArg |-> Null]
             ELSE [balance |-> value, error |-> << >>,
                   result |-> calculateExclusivity(btc, isGlobal),
                   estArg |-> btc]
        ELSE [balance |-> value, error |-> << >>, result |-> Null,
              estArg |-> Null]

\* handleChange computing numHolders before it looks at the limits
handleChangeEstimatesFirst(value, isGlobal) ==
    LET btc == parseFloat(value)
    IN  IF btc.k # "nan" /\ Ge(btc, Zero)
        THEN IF Gt(btc, MAX_BITCOIN_SUPPLY)
             THEN [balance |-> value, error |-> ExceedsSupplyMessage,
                   result |-> calculateExclusivity(btc, isGlobal),
                   estArg |-> btc]
             ELSE IF Gt(btc, LARGEST_KNOWN_HOLDING)
             THEN [balance |-> value, error |-> ExceedsLargestKnownMessage,
                   result |-> Zero, estArg |-> btc]
             ELSE [balance |-> value, error |-> << >>,
                   result |-> calculateExclusivity(btc, isGlobal),
                   estArg |-> btc]
        ELSE [balance |-> value, error |-> << >>, result |-> Null,
              estArg |-> Null]

\* handleChange without its setError("")
handleChangeKeepsError(value, isGlobal) ==
    LET btc == parseFloat(value)
    IN  IF btc.k # "nan" /\ Ge(btc, Zero)
        THEN IF Gt(btc, MAX_BITCOIN_SUPPLY)
             THEN [balance |-> value, error |-> ExceedsSupplyMessage,
                   result |-> Null, estArg |-> Null]
             ELSE IF Gt(btc, LARGEST_KNOWN_HOLDING)
             THEN [balance |-> value, error |-> ExceedsLargestKnownMessage,
                   result |-> Zero, estArg |-> Null]
             ELSE [balance |-> value, error |-> error,
                   result |-> calculateExclusivity(btc, isGlobal),
                   estArg |-> btc]
        ELSE [balance |-> value, error |-> error, result |-> Null,
              estArg |-> Null]

\* handleChange({target: {value}}), run in a render whose closure holds
\* isGlobal as showGlobal: the values its setBalance, setError and setResult
\* calls leave in the state cells, and the amount it passed to
\* calculateExclusivity (Null when it made no call)
handleChange(value, isGlobal) ==
    LET btc == parseFloat(value)
    IN  IF btc.k # "nan" /\ Ge(btc, Zero)
        THEN IF Gt(btc, MAX_BITCOIN_SUPPLY)
             THEN [balance |-> value, error |-> ExceedsSupplyMessage,
                   result |-> Null, estArg |-> Null]
             ELSE IF Gt(btc, LARGEST_KNOWN_HOLDING)
             THEN [balance |-> value, error |-> ExceedsLargestKnownMessage,
                   result |-> Zero, estArg |-> Null]
             ELSE [balance |-> value, error |-> << >>,
                   result |-> calculateExclusivity(btc, isGlobal),
                   estArg |-> btc]
        ELSE [balance |-> value, error |-> << >>, result |-> Null,
              estArg |-> Null]

----------------------------------------------------------------------------
(* What a render of the current state shows *)

\* {error && <div>...}
ErrorBannerShown == error # << >>

\* the render condition without its !error
ResultPanelShownDespiteError ==
    result # Null /\ Gt(ToNumber(balance), Zero)

\* the render condition with balance >= 0
ResultPanelShownAtZero ==
    result # Null /\ error = << >> /\ Ge(ToNumber(balance), Zero)

\* {result !== null && !error && balance > 0 && <div>...}
ResultPanelShown ==
    result # Null /\ error = << >> /\ Gt(ToNumber(balance), Zero)

\* the text of the first paragraph of the result panel
HolderSentence ==
    (IF showGlobal
     THEN <<"If Bitcoin was distributed among all ">>
          \o toFixed(Div(GLOBAL_POPULATION, Dec(1, 9)), 1)
          \o <<" billion people in the same ratio as current holders, ">>
     ELSE <<"Currently, ">>)
    \o toLocaleString(result) \o <<" ">>
    \o <<IF showGlobal THEN "people" ELSE "addresses">>
    \o <<" would have ", "at least", " ">> \o balance \o <<" BTC">>

\* the rows of the valuation table, in the order they are rendered
ScenarioRows ==
    [i \in 1..Len(MARKET_SCENARIOS) |->
        [name |-> MARKET_SCENARIOS[i].name,
         value |-> formatUSD(calculateValueInScenario(
                       parseFloat(balance), MARKET_SCENARIOS[i].cap))]]

----------------------------------------------------------------------------
(* Inputs *)

\* amounts are taken with up to MaxFrac fraction digits and up to
\* 10^MaxPow times a mantissa
MaxFrac == 2

MaxPow == 7

Mantissas == {1, 5, 11, 15, 21}

\* the plain decimal notation of m * 10^k
DecimalText(m, k) ==
    IF k >= 0 THEN Digits(m) \o Zeros(k)
    ELSE SubSeq(PadDigits(m, 1 - k), 1, Len(PadDigits(m, 1 - k)) + k)
         \o <<".">>
         \o SubSeq(PadDigits(m, 1 - k), Len(PadDigits(m, 1 - k)) + k + 1,
                   Len(PadDigits(m, 1 - k)))

\* texts on the edges of the cases: empty, zero, negative, exponent
\* notation, no leading digit, one past each limit
EdgeTexts ==
    { << >>, <<"0">>, <<"-", "0">>, <<"-", "5">>, <<"-", "1", ".", "5">>,
      <<"-", "1", "e", "7">>, <<".", "5">>, <<"0", ".", "0", "9", "9">>,
      <<"9", ".", "9", "9">>, <<"1", "e", "3">>, <<"1", "E", "-", "1">>,
      <<"1", ".", "5", "e", "6">>, <<"2", ".", "1", "e", "7">>,
      <<"9", "9", "9", "9", "9">>,
      <<"1", "1", "0", "0", "0", "0", "1">>,
      <<"1", "1", "0", "0", "0", "0", "0", ".", "5">>,
      <<"2", "1", "0", "0", "0", "0", "0", "1">> }

\* The values the input element can deliver as e.target.value: it is of
\* type "number", so its value is the empty string or a valid floating-point
\* number (digits, an optional leading "-", fraction and exponent).
InputValues ==
    EdgeTexts \cup
    { DecimalText(m, k) : m \in Mantissas, k \in (0 - MaxFrac)..MaxPow }

\* the amounts the pure functions are applied to
Amounts == { parseFloat(v) : v \in InputValues \ {<< >>} }

NonNegativeAmounts == { a \in Amounts : Ge(a, Zero) }

\* the largest valuation there is: the whole supply in the largest scenario
LargestValue ==
    calculateValueInScenario(MAX_BITCOIN_SUPPLY,
                             MARKET_SCENARIOS[Len(MARKET_SCENARIOS)].cap)

MaxUsdPow == 14

UsdMantissas == {1, 5, 12, 999, 1234, 123456, 999999, 999999999}

\* the USD amounts formatUSD is applied to: integers around every tier
\* edge, and the valuations of the amounts above
UsdAmounts ==
    { x \in { Dec(m, k) : m \in UsdMantissas, k \in 0..MaxUsdPow } :
        Le(x, LargestValue) }
    \cup { calculateValueInScenario(a, MARKET_SCENARIOS[i].cap) :
             a \in { b \in NonNegativeAmounts : Le(b, MAX_BITCOIN_SUPPLY) },
             i \in 1..Len(MARKET_SCENARIOS) }

----------------------------------------------------------------------------
(* The component: one action per event *)

NoCall == [fn |-> "none", done |-> TRUE, x |-> Null, y |-> Null,
           g |-> FALSE, out |-> Null, out2 |-> Null]

Init ==
    /\ balance = << >>
    /\ result = Null
    /\ error = << >>
    /\ showGlobal = FALSE
    /\ lastValue = << >>
    /\ estArg = Null
    /\ prevError = << >>
    /\ call = NoCall

\* the state after handleChange(value) ran in the current render and React
\* applied the updates it queued
RunHandleChange(value) ==
    \E h \in {handleChange(value, showGlobal)} :
        /\ balance' = h.balance
        /\ error' = h.error
        /\ result' = h.result
        /\ estArg' = h.estArg
        /\ lastValue' = value
        /\ prevError' = error

\* onChange={handleChange} of the input element
InputChange(value) ==
    /\ RunHandleChange(value)
    /\ UNCHANGED <<showGlobal, call>>

\* onClick of either mode button: setShowGlobal(mode), then, when balance is
\* not empty, handleChange on the current text.  handleChange is the one of
\* the render the click happened in: the showGlobal it reads is that
\* render's, not the value just queued.
ClickMode(mode) ==
    /\ showGlobal' = mode
    /\ IF balance # << >>
       THEN RunHandleChange(balance)
       ELSE UNCHANGED <<balance, error, result, estArg, lastValue, prevError>>
    /\ UNCHANGED call

ClickCurrentDistribution == ClickMode(FALSE)

ClickGlobalPopulation == ClickMode(TRUE)

Next ==
    \/ \E value \in InputValues : InputChange(value)
    \/ ClickCurrentDistribution
    \/ ClickGlobalPopulation

Spec == Init /\ [][Next]_vars

----------------------------------------------------------------------------
(* The pure functions on their own: Init draws the arguments, one action *)
(* per function applies it                                                *)

PendingCalls ==
    { [fn |-> "calculateExclusivity", done |-> FALSE, x |-> a, y |-> b,
       g |-> g, out |-> Null, out2 |-> Null] :
        a \in NonNegativeAmounts, b \in NonNegativeAmounts, g \in BOOLEAN }
    \cup
    { [fn |-> "calculateValueInScenario", done |-> FALSE, x |-> a,
       y |-> MARKET_SCENARIOS[i].cap, g |-> FALSE, out |-> Null,
       out2 |-> Null] :
        a \in NonNegativeAmounts, i \in 1..Len(MARKET_SCENARIOS) }
    \cup
    { [fn |-> "formatUSD", done |-> FALSE, x |-> u, y |-> Null, g |-> FALSE,
       out |-> Null, out2 |-> Null] : u \in UsdAmounts }

InitPure ==
    /\ balance = << >>
    /\ result = Null
    /\ error = << >>
    /\ showGlobal = FALSE
    /\ lastValue = << >>
    /\ estArg = Null
    /\ prevError = << >>
    /\ call \in PendingCalls

\* calculateExclusivity on two amounts in one mode
ApplyExclusivity ==
    /\ call.fn = "calculateExclusivity" /\ ~call.done
    /\ call' = [call EXCEPT !.done = TRUE,
                            !.out = calculateExclusivity(call.x, call.g),
                            !.out2 = calculateExclusivity(call.y, call.g)]
    /\ UNCHANGED <<balance, result, error, showGlobal, lastValue, estArg,
                   prevError>>

\* calculateValueInScenario on an amount and on twice the amount
ApplyValue ==
    /\ call.fn = "calculateValueInScenario" /\ ~call.done
    /\ call' = [call EXCEPT !.done = TRUE,
                            !.out = calculateValueInScenario(call.x, call.y),
                            !.out2 = calculateValueInScenario(
                                         Mul(Dec(2, 0), call.x), call.y)]
    /\ UNCHANGED <<balance, result, error, showGlobal, lastValue, estArg,
                   prevError>>

ApplyFormat ==
    /\ call.fn = "formatUSD" /\ ~call.done
    /\ call' = [call EXCEPT !.done = TRUE, !.out = formatUSD(call.x)]
    /\ UNCHANGED <<balance, result, error, showGlobal, lastValue, estArg,
                   prevError>>

NextPure == ApplyExclusivity \/ ApplyValue \/ ApplyFormat

SpecPure == InitPure /\ [][NextPure]_vars

----------------------------------------------------------------------------
(* Vocabulary of the properties *)

\* the amount the current input text parses to
Amount == parseFloat(balance)

\* the text parses to an amount in [0, LARGEST_KNOWN_HOLDING]
ValidAmount == Ge(Amount, Zero) /\ Le(Amount, LARGEST_KNOWN_HOLDING)

\* the text parses to an amount in (LARGEST_KNOWN_HOLDING, MAX_SUPPLY]
AboveLargestKnown ==
    Gt(Amount, LARGEST_KNOWN_HOLDING) /\ Le(Amount, MAX_BITCOIN_SUPPLY)

\* the text parses to an amount above MAX_SUPPLY
AboveSupply == Gt(Amount, MAX_BITCOIN_SUPPLY)

\* the text s is empty or does not parse as a non-negative number
NotANumber(s) == parseFloat(s).k = "nan" \/ Lt(parseFloat(s), Zero)

LargestKnownText ==
    <<"No known addresses hold more than ",
      "1", ",", "1", "0", "0", ",", "0", "0", "0", " BTC">>

SupplyText ==
    <<"Invalid amount: exceeds maximum Bitcoin supply of ",
      "2", "1", ",", "0", "0", "0", ",", "0", "0", "0", " BTC">>

ScenarioNamesInOrder ==
    <<"Current Bitcoin Market Cap", "Gold Market Cap", "All Currencies",
      "Global Wealth">>

\* x and y are the same number (0 and -0 are)
Eq(x, y) == IsNum(x) /\ IsNum(y) /\ Cmp(x, y) = 0

EstimatorRan == call.fn = "calculateExclusivity" /\ call.done

ValuationRan == call.fn = "calculateValueInScenario" /\ call.done

FormatRan == call.fn = "formatUSD" /\ call.done

----------------------------------------------------------------------------
(* Properties of the component, under Spec *)

\* C1: whenever the input text parses to an amount in
\* [0, LARGEST_KNOWN_HOLDING], the stored result is the estimate for that
\* amount in the currently selected population mode.
C1_ResultFollowsMode ==
    ValidAmount => result = calculateExclusivity(Amount, showGlobal)

\* C4: whenever the input text parses to an amount in
\* (LARGEST_KNOWN_HOLDING, MAX_SUPPLY], in either mode and after any events,
\* the message citing the 1,100,000 threshold is set and the stored result
\* is the number 0, not null.
C4_ExceedsLargestKnown ==
    AboveLargestKnown =>
        error = LargestKnownText /\ result = Zero /\ result # Null

\* C4's case: such an amount typed in Global Population mode while the
\* max-supply message was on screen
C4_Witness ==
    /\ AboveLargestKnown
    /\ showGlobal
    /\ prevError = SupplyText
    /\ error = LargestKnownText
    /\ result = Zero

\* C5: whenever the input text parses to an amount above MAX_SUPPLY, the
\* message citing the max supply is set, the stored result is null and the
\* handler made no call of the estimator; no handler run ever passes the
\* estimator an amount above MAX_SUPPLY.
C5_ExceedsSupply ==
    /\ AboveSupply => error = SupplyText /\ result = Null /\ estArg = Null
    /\ estArg # Null => ~Gt(estArg, MAX_BITCOIN_SUPPLY)

\* C5's case: an amount above the supply typed over a computed result
C5_Witness ==
    /\ AboveSupply
    /\ lastValue = balance
    /\ prevError = << >>
    /\ error = SupplyText
    /\ result = Null
    /\ estArg = Null

\* C6, as stated: for an amount in (LARGEST_KNOWN_HOLDING, MAX_SUPPLY] the
\* advisory banner is displayed and the result is shown too, as 0 holders,
\* in the same render.
C6_BannerAndResultShown ==
    AboveLargestKnown =>
        /\ ErrorBannerShown /\ error = LargestKnownText
        /\ ResultPanelShown /\ toLocaleString(result) = <<"0">>

\* C6, amended: for an amount in (LARGEST_KNOWN_HOLDING, MAX_SUPPLY] the
\* advisory banner with the threshold figure is displayed and the stored
\* result is 0, but the result panel is not rendered.
C6_BannerOnly ==
    AboveLargestKnown =>
        /\ ErrorBannerShown /\ error = LargestKnownText
        /\ result = Zero
        /\ ~ResultPanelShown

\* C6's case: the banner is up over a stored result of 0
C6_Witness ==
    /\ AboveLargestKnown
    /\ ErrorBannerShown
    /\ result # Null /\ toLocaleString(result) = <<"0">>
    /\ ~ResultPanelShown

\* C7, as stated: whenever the input text parses to an amount in
\* [0, LARGEST_KNOWN_HOLDING], 0 included, the error message is empty and
\* the result panel is shown with the four valuations in declaration order.
C7_PanelForEveryValidAmount ==
    ValidAmount =>
        /\ error = << >>
        /\ ResultPanelShown
        /\ [i \in 1..Len(ScenarioRows) |-> ScenarioRows[i].name]
               = ScenarioNamesInOrder

\* C7, amended: whenever the input text parses to an amount in
\* (0, LARGEST_KNOWN_HOLDING], the error message is empty and the result
\* panel is shown: the holder-count sentence with the stored result, and
\* the four valuations in declaration order, each a "$" amount.  When it
\* parses to 0 the error message is empty and the stored result is the
\* whole base of a mode, and the panel is not rendered.
C7_PanelForPositiveAmount ==
    /\ ValidAmount /\ Gt(Amount, Zero) =>
        /\ error = << >>
        /\ ResultPanelShown
        /\ \E i \in 1..Len(HolderSentence) :
              SubSeq(HolderSentence, i, i + Len(toLocaleString(result)) - 1)
                  = toLocaleString(result)
        /\ [i \in 1..Len(ScenarioRows) |-> ScenarioRows[i].name]
               = ScenarioNamesInOrder
        /\ \A i \in 1..Len(ScenarioRows) : Head(ScenarioRows[i].value) = "$"
    /\ ValidAmount /\ ~Gt(Amount, Zero) =>
        /\ error = << >>
        /\ result \in {Dec(1, 8), Dec(8, 9)}
        /\ ~ResultPanelShown

\* C7's case: 1.5 typed in Current Distribution mode, and what is rendered
C7_Witness ==
    /\ balance = <<"1", ".", "5">>
    /\ ~showGlobal
    /\ ResultPanelShown
    /\ HolderSentence =
         <<"Currently, ", "2", "5", "0", ",", "0", "0", "0", " ",
           "addresses", " would have ", "at least", " ", "1", ".", "5",
           " BTC">>
    /\ ScenarioRows[1].value =
         <<"$", "7", "1", ",", "4", "2", "8", ".", "5", "7", "1">>
    /\ ScenarioRows[4].value = <<"$", "3", "5", ".", "7", "1", "M">>

\* C8: after a handler run on a text that is empty or does not parse as a
\* non-negative number, whatever was on screen before, the input value is
\* that text unchanged, the result is null and the error message is empty.
C8_NotANumber ==
    NotANumber(lastValue) =>
        balance = lastValue /\ result = Null /\ error = << >>

\* C8's case: a negative number typed while an error message was on screen
C8_Witness ==
    /\ NotANumber(lastValue)
    /\ lastValue # << >>
    /\ prevError # << >>
    /\ balance = lastValue /\ result = Null /\ error = << >>

----------------------------------------------------------------------------
(* Properties of the pure functions, under SpecPure *)

InBand(a, lo, hi) == Ge(a, lo) /\ Lt(a, hi)

\* the band table of the estimator: the value the band of a prescribes in
\* mode g (g: Global Population), each band by its own two ends
BandValue(a, g) ==
    LET base == IF g THEN Dec(8, 9) ELSE Dec(1, 8)
        Share(f) == MathRound(Mul(f, base))
    IN  CASE Le(a, Zero) -> base
          [] Gt(a, Zero) /\ Lt(a, Dec(1, -1)) -> Share(Dec(8, -2))
          [] InBand(a, Dec(1, -1), Dec(1, 0)) -> Share(Dec(15, -3))
          [] InBand(a, Dec(1, 0), Dec(1, 1)) -> Share(Dec(25, -4))
          [] InBand(a, Dec(1, 1), Dec(1, 2)) -> Share(Dec(3, -6))
          [] InBand(a, Dec(1, 2), Dec(1, 3)) ->
                IF g THEN Share(Dec(5, -7)) ELSE Dec(1678, 0)
          [] InBand(a, Dec(1, 3), Dec(1, 4)) ->
                IF g THEN Share(Dec(1, -7)) ELSE Dec(85, 0)
          [] InBand(a, Dec(1, 4), Dec(1, 5)) ->
                IF g THEN Share(Dec(1, -8)) ELSE Dec(5, 0)
          [] Ge(a, Dec(1, 5)) /\ Le(a, Dec(11, 5)) ->
                IF g THEN Share(Dec(1, -10)) ELSE Dec(1, 0)

\* C2, as stated: for every amount in [0, LARGEST_KNOWN_HOLDING] and either
\* mode the estimator returns the value of the band table; amount 0 gives
\* the full base and amount 1.5 in CurrentAddresses gives 1,500,000.
C2_BandTableWithExample ==
    EstimatorRan /\ Le(call.x, LARGEST_KNOWN_HOLDING) =>
        /\ call.out = BandValue(call.x, call.g)
        /\ call.x = Zero => call.out = (IF call.g THEN Dec(8, 9) ELSE Dec(1, 8))
        /\ call.x = Dec(15, -1) /\ ~call.g => call.out = Dec(1500000, 0)

\* C2, amended: for every amount in [0, LARGEST_KNOWN_HOLDING] and either
\* mode the estimator returns the value of the band table; amount 0 gives
\* the full base and amount 1.5, which lies in [1, 10), gives 250,000 in
\* CurrentAddresses (1,500,000 is the value of the band [0.1, 1)).
C2_BandTable ==
    EstimatorRan /\ Le(call.x, LARGEST_KNOWN_HOLDING) =>
        /\ call.out = BandValue(call.x, call.g)
        /\ call.x = Zero => call.out = (IF call.g THEN Dec(8, 9) ELSE Dec(1, 8))
        /\ call.x = Dec(15, -1) /\ ~call.g => call.out = Dec(250000, 0)
        /\ call.x = Dec(5, -1) /\ ~call.g => call.out = Dec(1500000, 0)

\* C2's case: the estimator applied to 1.5 in CurrentAddresses mode
C2_Witness ==
    /\ EstimatorRan
    /\ call.x = Dec(15, -1) /\ ~call.g
    /\ call.out = Dec(250000, 0)

\* C3: in a fixed mode the estimator returns a non-negative integer for
\* every amount in [0, LARGEST_KNOWN_HOLDING], and for a <= b in that range
\* the estimate of a is at least the estimate of b.
C3_NonIncreasing ==
    EstimatorRan /\ Le(call.x, call.y) /\ Le(call.y, LARGEST_KNOWN_HOLDING) =>
        /\ IsInteger(call.out) /\ Ge(call.out, Zero)
        /\ IsInteger(call.out2) /\ Ge(call.out2, Zero)
        /\ Ge(call.out, call.out2)

\* C9: the valuation of an amount is the amount times the scenario's cap
\* over MAX_SUPPLY (for a non-zero amount: value / amount = cap /
\* MAX_SUPPLY), and the valuation of twice an amount a with 2a <= MAX_SUPPLY
\* is twice the valuation of a.
C9_ValueLinear ==
    ValuationRan =>
        /\ Eq(call.x, Zero) => Eq(call.out, Zero)
        /\ ~Eq(call.x, Zero) =>
              Eq(Div(call.out, call.x), Div(call.y, Dec(21, 6)))
        /\ Le(Mul(Dec(2, 0), call.x), Dec(21, 6)) =>
              Eq(call.out2, Mul(Dec(2, 0), call.out))

\* C9's case: an amount whose valuation is no whole number, doubled
C9_Witness ==
    /\ ValuationRan
    /\ Gt(call.x, Zero) /\ Le(Mul(Dec(2, 0), call.x), Dec(21, 6))
    /\ ~IsInteger(call.out)
    /\ Eq(call.out2, Mul(Dec(2, 0), call.out))

Last(s) == s[Len(s)]

RECURSIVE WithoutCommas(_)
WithoutCommas(s) ==
    IF s = << >> THEN << >>
    ELSE IF Head(s) = "," THEN WithoutCommas(Tail(s))
    ELSE <<Head(s)>> \o WithoutCommas(Tail(s))

\* t is the digits of a natural number with a comma before every third
\* digit from the right, and nowhere else
GroupedDigits(t) ==
    /\ t # << >>
    /\ \A i \in 1..Len(t) :
          IF (Len(t) - i + 1) % 4 = 0 /\ i > 1 THEN t[i] = ","
          ELSE IsDigit(t[i])
    /\ Len(t) % 4 # 0

\* t is digits, a point and two digits
TwoDecimals(t) ==
    /\ Len(t) >= 4
    /\ t[Len(t) - 2] = "."
    /\ \A i \in 1..Len(t) : i # Len(t) - 2 => IsDigit(t[i])

\* the number of hundredths a two-decimal text stands for
Hundredths(t) ==
    Mul(parseFloat(t), Dec(100, 0)).m * Pow10(Mul(parseFloat(t), Dec(100, 0)).e)

\* the text s is "$", amount / unit to two decimals (a half rounding either
\* way), and the suffix
ShownInUnit(s, amount, unit, suffix) ==
    /\ Head(s) = "$" /\ Last(s) = suffix
    /\ TwoDecimals(SubSeq(s, 2, Len(s) - 1))
    /\ Le(Num(FALSE, 2 * Hundredths(SubSeq(s, 2, Len(s) - 1)) - 1, 0, 200),
          Div(amount, unit))
    /\ Le(Div(amount, unit),
          Num(FALSE, 2 * Hundredths(SubSeq(s, 2, Len(s) - 1)) + 1, 0, 200))

====
